---- MODULE Spec2Model ----
(***************************************************************************)
(* vue-unused: the analysis run of analyzeProject (file enumeration, the   *)
(* bounded file-read phase, import extraction and path resolution, the     *)
(* orphan detector and the optional bundle correlation), modelled as a     *)
(* state machine.  Paths, specifiers and markup are TLA+ strings; the      *)
(* string operators below compute what the JavaScript string and path      *)
(* functions compute on them.                                              *)
(***************************************************************************)
EXTENDS Integers, Sequences, FiniteSets, TLC

(***************************************************************************)
(* JavaScript string primitives                                            *)
(***************************************************************************)
StartsWith(s, p) == Len(s) >= Len(p) /\ SubSeq(s, 1, Len(p)) = p

EndsWith(s, p) == Len(s) >= Len(p) /\ SubSeq(s, Len(s) - Len(p) + 1, Len(s)) = p

CharAt(s, i) == SubSeq(s, i, i)

\* s.slice(n): the string without its first n characters
Slice(s, n) == IF n >= Len(s) THEN "" ELSE SubSeq(s, n + 1, Len(s))

LowerChars == "abcdefghijklmnopqrstuvwxyz"

UpperChars == "ABCDEFGHIJKLMNOPQRSTUVWXYZ"

DigitChars == "0123456789"

IsCharOf(c, alphabet) == \E i \in 1..Len(alphabet) : CharAt(alphabet, i) = c

IsUpper(c) == IsCharOf(c, UpperChars)

IsLower(c) == IsCharOf(c, LowerChars)

IsDigit(c) == IsCharOf(c, DigitChars)

\* the regular-expression class \w
IsWordChar(c) == IsUpper(c) \/ IsLower(c) \/ IsDigit(c) \/ c = "_"

ToUpperChar(c) ==
    IF IsLower(c)
    THEN CharAt(UpperChars, CHOOSE i \in 1..Len(LowerChars) : CharAt(LowerChars, i) = c)
    ELSE c

\* the index of the first occurrence of p in s at or after position i, 0 if none
RECURSIVE IndexFrom(_, _, _)
IndexFrom(s, p, i) ==
    IF i + Len(p) - 1 > Len(s) THEN 0
    ELSE IF SubSeq(s, i, i + Len(p) - 1) = p THEN i
    ELSE IndexFrom(s, p, i + 1)

RangeOf(q) == { q[i] : i \in 1..Len(q) }

\* Array.from(new Set(q)): the first occurrences, in order
RECURSIVE Unique(_)
Unique(q) ==
    IF q = <<>> THEN <<>>
    ELSE LET r == Unique(SubSeq(q, 1, Len(q) - 1))
             x == q[Len(q)]
         IN  IF x \in RangeOf(r) THEN r ELSE Append(r, x)

RECURSIVE FilterSeq(_, _)
FilterSeq(q, keep) ==
    IF q = <<>> THEN <<>>
    ELSE LET r == FilterSeq(SubSeq(q, 1, Len(q) - 1), keep)
             x == q[Len(q)]
         IN  IF x \in keep THEN Append(r, x) ELSE r

(***************************************************************************)
(* node:path on POSIX                                                      *)
(***************************************************************************)
\* the "/"-separated pieces of s from position i on (cur is the piece being read)
RECURSIVE SplitFrom(_, _, _)
SplitFrom(s, i, cur) ==
    IF i > Len(s) THEN <<cur>>
    ELSE IF CharAt(s, i) = "/" THEN <<cur>> \o SplitFrom(s, i + 1, "")
    ELSE SplitFrom(s, i + 1, cur \o CharAt(s, i))

Segments(s) == SplitFrom(s, 1, "")

\* drop "" and ".", let ".." remove the segment before it
RECURSIVE NormalizeSegs(_, _)
NormalizeSegs(segs, acc) ==
    IF segs = <<>> THEN acc
    ELSE LET h == Head(segs)
         IN  IF h = "" \/ h = "." THEN NormalizeSegs(Tail(segs), acc)
             ELSE IF h = ".."
             THEN NormalizeSegs(Tail(segs),
                                IF acc = <<>> THEN acc ELSE SubSeq(acc, 1, Len(acc) - 1))
             ELSE NormalizeSegs(Tail(segs), Append(acc, h))

RECURSIVE JoinSegs(_)
JoinSegs(segs) ==
    IF segs = <<>> THEN "" ELSE "/" \o Head(segs) \o JoinSegs(Tail(segs))

\* an absolute path in normal form
NormalizeAbs(p) ==
    LET segs == NormalizeSegs(Segments(p), <<>>)
    IN  IF segs = <<>> THEN "/" ELSE JoinSegs(segs)

IsAbsolute(p) == StartsWith(p, "/")

\* path.resolve(from, to) with an absolute from
PathResolve(from, to) ==
    IF IsAbsolute(to) THEN NormalizeAbs(to) ELSE NormalizeAbs(from \o "/" \o to)

\* path.resolve(a, b, c)
PathResolve3(a, b, c) == PathResolve(PathResolve(a, b), c)

\* path.join(dir, name) with an absolute dir
PathJoin(dir, name) == NormalizeAbs(dir \o "/" \o name)

\* path.dirname of an absolute path
Dirname(p) ==
    LET segs == NormalizeSegs(Segments(p), <<>>)
    IN  IF Len(segs) <= 1 THEN "/" ELSE JoinSegs(SubSeq(segs, 1, Len(segs) - 1))

\* p is dir or lies below dir
IsUnder(p, dir) == p = dir \/ StartsWith(p, dir \o "/")

(***************************************************************************)
(* vue-parser: the markup component analyzer.  A script region is the      *)
(* result of parsing it: parses says whether @babel/parser accepts the     *)
(* text, stmts are the import declarations and call expressions of the     *)
(* program in traversal order.                                             *)
(***************************************************************************)
\* null / undefined, where an object is expected
Null == [null |-> TRUE]

\* a region whose text is empty
EmptyScript == [parses |-> TRUE, stmts |-> <<>>]

\* parseVueFile reading the <script setup> block where it reads the <script> block
parseVueFileSetup(code) ==
    [scriptContent   |-> IF code.scriptSetup = Null THEN EmptyScript ELSE code.scriptSetup,
     templateContent |-> IF code.template = Null THEN "" ELSE code.template.content]

\* the SFC descriptor of a component file: the blocks the compiler splits it into
\* (script and scriptSetup are Null when the file has no such block)
parseVueFile(code) ==
    [scriptContent   |-> IF code.script = Null THEN EmptyScript ELSE code.script,
     templateContent |-> IF code.template = Null THEN "" ELSE code.template.content]

IsTagChar(c) == IsUpper(c) \/ IsLower(c) \/ IsDigit(c) \/ c = "-"

\* the end of the run of tag characters that starts at position j
RECURSIVE TagEnd(_, _)
TagEnd(s, j) ==
    IF j + 1 <= Len(s) /\ IsTagChar(CharAt(s, j + 1)) THEN TagEnd(s, j + 1) ELSE j

\* the matches of /<([A-Z][a-zA-Z0-9-]*)/g from position i on
RECURSIVE ScanTags(_, _)
ScanTags(s, i) ==
    LET lt == IndexFrom(s, "<", i)
    IN  IF lt = 0 THEN <<>>
        ELSE IF lt + 1 <= Len(s) /\ IsUpper(CharAt(s, lt + 1))
        THEN LET e == TagEnd(s, lt + 1)
             IN  <<SubSeq(s, lt + 1, e)>> \o ScanTags(s, e + 1)
        ELSE ScanTags(s, lt + 1)

IsQuote(c) == c = "'" \/ c = "\""

\* the end of the run of non-quote characters that starts at position j (j - 1 if empty)
RECURSIVE ValueEnd(_, _)
ValueEnd(s, j) ==
    IF j <= Len(s) /\ ~IsQuote(CharAt(s, j)) THEN ValueEnd(s, j + 1) ELSE j - 1

\* the matches of /:is="['"]([^'"]+)['"]/g from position i on
RECURSIVE ScanIs(_, _)
ScanIs(s, i) ==
    LET at == IndexFrom(s, ":is=\"", i)
    IN  IF at = 0 THEN <<>>
        ELSE LET q == at + 5
                 e == ValueEnd(s, q + 1)
             IN  IF /\ q <= Len(s) /\ IsQuote(CharAt(s, q))
                    /\ e >= q + 1
                    /\ e + 1 <= Len(s) /\ IsQuote(CharAt(s, e + 1))
                 THEN <<SubSeq(s, q + 1, e)>> \o ScanIs(s, e + 2)
                 ELSE ScanIs(s, at + 1)

getTemplateTags(templateContent) ==
    Unique(ScanTags(templateContent, 1) \o ScanIs(templateContent, 1))

\* the default-import bindings of one declaration, as binding :> source pairs
DefaultBindings(stmt) ==
    IF stmt.type = "ImportDeclaration"
    THEN { <<stmt.specifiers[k].local, stmt.source>> :
             k \in { j \in 1..Len(stmt.specifiers) :
                       stmt.specifiers[j].type = "ImportDefaultSpecifier" } }
    ELSE {}

\* components.set over the statements in order: a later declaration of a name wins
RECURSIVE ComponentsOf(_)
ComponentsOf(stmts) ==
    IF stmts = <<>> THEN <<>>
    ELSE LET before == ComponentsOf(SubSeq(stmts, 1, Len(stmts) - 1))
             here   == DefaultBindings(stmts[Len(stmts)])
             names  == { b[1] : b \in here }
         IN  [n \in DOMAIN before \cup names |->
                 IF n \in names THEN (CHOOSE b \in here : b[1] = n)[2] ELSE before[n]]

\* a Map from the local name of a default import to its source
getImportedComponents(scriptContent) ==
    IF scriptContent.stmts = <<>> \/ ~scriptContent.parses
    THEN <<>>
    ELSE ComponentsOf(scriptContent.stmts)

\* str.replace(/-(\w)/g, (_, c) => c.toUpperCase())
RECURSIVE KebabFrom(_, _)
KebabFrom(str, i) ==
    IF i > Len(str) THEN ""
    ELSE IF CharAt(str, i) = "-" /\ i + 1 <= Len(str) /\ IsWordChar(CharAt(str, i + 1))
    THEN ToUpperChar(CharAt(str, i + 1)) \o KebabFrom(str, i + 2)
    ELSE CharAt(str, i) \o KebabFrom(str, i + 1)

kebabCaseToPascalCase(str) == KebabFrom(str, 1)

RECURSIVE UsedSourcesOf(_, _)
UsedSourcesOf(tags, importedComponents) ==
    IF tags = <<>> THEN <<>>
    ELSE LET tag       == Head(tags)
             pascalTag == kebabCaseToPascalCase(tag)
             rest      == UsedSourcesOf(Tail(tags), importedComponents)
         IN  IF tag \in DOMAIN importedComponents
             THEN <<importedComponents[tag]>> \o rest
             ELSE IF pascalTag \in DOMAIN importedComponents
             THEN <<importedComponents[pascalTag]>> \o rest
             ELSE rest

\* getUsedImportSources crediting a component file named after each tag, imported
\* or not
getUsedImportSourcesByTagName(templateTags, importedComponents) ==
    [k \in 1..Len(templateTags) |-> "./" \o templateTags[k] \o ".vue"]

getUsedImportSources(templateTags, importedComponents) ==
    Unique(UsedSourcesOf(templateTags, importedComponents))

(***************************************************************************)
(* The project on disk and the run's configuration                         *)
(***************************************************************************)
VARIABLES
    config,          \* the configuration object loadConfig and the CLI flags produce
    fsys,            \* the filesystem: the files (in directory order), the directories,
                     \* the symbolic links and the files' contents
    sourceMapLib,    \* whether import("source-map") succeeds
    pc,              \* the position of analyzeProject
    bundleAnalysis,  \* the result of analyzeBundleDirectory, or Null
    allFiles,        \* the enumerated paths, in enumeration order
    usedFiles,       \* the Set usedFiles
    dependencyGraph, \* file -> Set of files
    pendingReads,    \* the file reads p-limit has started and that have not finished
    readQueue,       \* the file reads p-limit holds back
    fileContents,    \* the files whose read has finished
    task,            \* per file: the position of its extraction/resolution callback
    existsCache,     \* the process-wide Map existsCache
    normalizeCalls,  \* every <<imp, file>> normalizeImportPath was called with
    probeLog,        \* every <<path, imp>> fs.access was asked about
    edgeLog,         \* every <<imp, normPath>> added to dependencyGraph and usedFiles
    staticUnused,    \* unusedFiles as computed by the orphan detector (before correlation)
    result,          \* the object analyzeProject returns, or Null
    sched,           \* the run as counts of callbacks per position (SpecSched)
    cli,             \* the command-line program around analyzeProject (SpecCli)
    previous         \* the result of the process's earlier run, or Null (SpecTwice)

vars == <<config, fsys, sourceMapLib, pc, bundleAnalysis, allFiles, usedFiles,
          dependencyGraph, pendingReads, readQueue, fileContents, task, existsCache,
          normalizeCalls, probeLog, edgeLog, staticUnused, result, sched, cli, previous>>

\* the proper ancestors of an absolute path
RECURSIVE Ancestors(_)
Ancestors(p) ==
    IF p = "/" THEN {} ELSE {Dirname(p)} \cup Ancestors(Dirname(p))

FilesOf(fsy) == fsy.files

\* fs.existsSync / fs.promises.access: files and directories both exist
Exists(fsy, p) == p \in fsy.files \/ p \in fsy.dirs

\* fs.realpathSync: the path with its symbolic link replaced by the link's target
RealPath(fsy, p) ==
    LET via == { l \in DOMAIN fsy.links : IsUnder(p, l) }
    IN  IF via = {} THEN p
        ELSE LET l == CHOOSE x \in via : TRUE
             IN  fsy.links[l] \o Slice(p, Len(l))

\* normalizeFilePath: realpath, or the resolved path when realpath throws
normalizeFilePath(fsy, file) ==
    IF Exists(fsy, file) THEN RealPath(fsy, file) ELSE NormalizeAbs(file)

\* path.relative(rootDir, file) for a file below rootDir
RelativeTo(rootDir, file) ==
    IF IsUnder(file, rootDir) /\ file # rootDir THEN Slice(file, Len(rootDir) + 1) ELSE file

(***************************************************************************)
(* analyzer: extraction, package filter, alias table, resolver candidates  *)
(***************************************************************************)
\* extractImports taking the argument of import()/require() whatever its node type
SpecifierOfAnyArgument(node) ==
    IF node.type = "ImportDeclaration" THEN <<node.source>>
    ELSE IF /\ node.type = "CallExpression"
            /\ node.callee \in {"Import", "require"}
            /\ Len(node.arguments) > 0
    THEN <<node.arguments[1].value>>
    ELSE <<>>

\* the specifier a statement contributes, as a sequence of zero or one strings
SpecifierOf(node) ==
    IF node.type = "ImportDeclaration" THEN <<node.source>>
    ELSE IF /\ node.type = "CallExpression"
            /\ node.callee \in {"Import", "require"}
            /\ Len(node.arguments) > 0
            /\ node.arguments[1].type = "StringLiteral"
    THEN <<node.arguments[1].value>>
    ELSE <<>>

RECURSIVE SpecifiersOf(_)
SpecifiersOf(stmts) ==
    IF stmts = <<>> THEN <<>>
    ELSE SpecifierOf(Head(stmts)) \o SpecifiersOf(Tail(stmts))

\* extractImports over a parser that recovers from the syntax error
extractImportsRecovering(code) == Unique(SpecifiersOf(code.stmts))

\* Array.from(imports); a text that does not parse yields no specifier
extractImports(code) ==
    IF code.parses THEN Unique(SpecifiersOf(code.stmts)) ELSE <<>>

\* aliases is a sequence of <<alias, target>> pairs
IsAliasOf(imp, alias) == imp = alias \/ StartsWith(imp, alias \o "/")

\* isPackageImport with the alias test the wrong way round
isPackageImportAliased(imp, aliases) ==
    LET isAlias == \E k \in 1..Len(aliases) : IsAliasOf(imp, aliases[k][1])
    IN  ~StartsWith(imp, ".") /\ ~IsAbsolute(imp) /\ isAlias

isPackageImport(imp, aliases) ==
    LET isAlias == \E k \in 1..Len(aliases) : IsAliasOf(imp, aliases[k][1])
    IN  ~StartsWith(imp, ".") /\ ~IsAbsolute(imp) /\ ~isAlias

\* insert pair e after every entry whose alias is at least as long (a stable sort)
RECURSIVE InsertByLength(_, _)
InsertByLength(sorted, e) ==
    IF sorted = <<>> THEN <<e>>
    ELSE IF Len(Head(sorted)[1]) >= Len(e[1])
    THEN <<Head(sorted)>> \o InsertByLength(Tail(sorted), e)
    ELSE <<e>> \o sorted

\* the alias table left in the order of the configuration
KeepAliasOrder(entries) == entries

\* Object.entries(config.alias).sort((a, b) => b[0].length - a[0].length)
RECURSIVE SortAliases(_)
SortAliases(entries) ==
    IF entries = <<>> THEN <<>>
    ELSE InsertByLength(SortAliases(SubSeq(entries, 1, Len(entries) - 1)),
                        entries[Len(entries)])

\* imp.slice(alias.length) without the removal of the leading "/"
AliasRestSlash(imp, alias) == Slice(imp, Len(alias))

\* imp.slice(alias.length).replace(/^\//, "")
AliasRest(imp, alias) ==
    LET rest == Slice(imp, Len(alias))
    IN  IF StartsWith(rest, "/") THEN Slice(rest, 1) ELSE rest

\* steps 1 and 2 of normalizeImportPath: the path the specifier stands for
ResolvedBase(imp, basePath, rootDir, aliases) ==
    LET hits == { k \in 1..Len(aliases) : IsAliasOf(imp, aliases[k][1]) }
    IN  IF hits # {}
        THEN LET k == CHOOSE x \in hits : \A y \in hits : x <= y
             IN  PathResolve3(rootDir, aliases[k][2], AliasRest(imp, aliases[k][1]))
        ELSE PathResolve(Dirname(basePath), imp)

RECURSIVE DirectCands(_, _)
DirectCands(resolved, exts) ==
    IF exts = <<>> THEN <<>>
    ELSE (IF EndsWith(resolved, Head(exts)) THEN <<resolved>> ELSE <<>>)
         \o DirectCands(resolved, Tail(exts))

\* normalizeImportPath trying the index files before the appended extensions
CandidatesIndexFirst(imp, basePath, rootDir, aliases, extensions) ==
    LET resolved == ResolvedBase(imp, basePath, rootDir, aliases)
        exts     == extensions.list
    IN  (IF extensions.all \/ Len(exts) = 0 THEN <<resolved>> ELSE <<>>)
        \o DirectCands(resolved, exts)
        \o [k \in 1..Len(exts) |-> PathJoin(resolved, "index" \o exts[k])]
        \o [k \in 1..Len(exts) |-> resolved \o exts[k]]
        \o <<resolved>>

\* the paths normalizeImportPath awaits cachedExists on, in order; it returns the
\* first that exists and null when none does.  extensions.list is what
\* "for (const ext of extensions)" iterates: the configured list, or the
\* characters of the string "ALL".
Candidates(imp, basePath, rootDir, aliases, extensions) ==
    LET resolved == ResolvedBase(imp, basePath, rootDir, aliases)
        exts     == extensions.list
    IN  (IF extensions.all \/ Len(exts) = 0 THEN <<resolved>> ELSE <<>>)
        \o DirectCands(resolved, exts)
        \o [k \in 1..Len(exts) |-> resolved \o exts[k]]
        \o [k \in 1..Len(exts) |-> PathJoin(resolved, "index" \o exts[k])]
        \o <<resolved>>

(***************************************************************************)
(* File enumerator: fast-glob with the ignore globs, then the .gitignore   *)
(* filter.  Globs are matched for the shapes the tool's own patterns have. *)
(***************************************************************************)
DefaultIgnore ==
    <<"**/node_modules/**", "**/dist/**", "**/build/**", "**/.output/**",
      "**/.nuxt/**", "**/.vite/**", "**/.git/**">>

Basename(p) == LET segs == Segments(p) IN segs[Len(segs)]

\* the directory names on the way to rel (all segments but the last)
DirSegments(rel) == LET segs == Segments(rel) IN RangeOf(SubSeq(segs, 1, Len(segs) - 1))

GlobMatches(pattern, rel) ==
    IF StartsWith(pattern, "**/") /\ EndsWith(pattern, "/**") /\ Len(pattern) > 6
    THEN SubSeq(pattern, 4, Len(pattern) - 3) \in DirSegments(rel)
    ELSE IF StartsWith(pattern, "**/*.") /\ EndsWith(pattern, ".*")
    THEN IndexFrom(Basename(rel), SubSeq(pattern, 5, Len(pattern) - 1), 2) # 0
    ELSE IF EndsWith(pattern, "/**")
    THEN StartsWith(rel, SubSeq(pattern, 1, Len(pattern) - 2))
    ELSE rel = pattern

\* the glob built from config.extensions: every file, or the files with a listed extension
InGlobPattern(extensions, rel) ==
    \/ extensions.all
    \/ Len(extensions.list) = 0
    \/ \E k \in 1..Len(extensions.list) :
          LET ext == extensions.list[k]
              bare == IF StartsWith(ext, ".") THEN Slice(ext, 1) ELSE ext
          IN  EndsWith(Basename(rel), "." \o bare) /\ Len(Basename(rel)) > Len(bare) + 1

\* getIgnorer(rootDir).ignores(rel): the lines of .gitignore, each a file or directory name
gitIgnores(fsy, rootDir, rel) ==
    LET gitignorePath == PathJoin(rootDir, ".gitignore")
    IN  /\ gitignorePath \in FilesOf(fsy)
        /\ \E k \in 1..Len(fsy.text[gitignorePath].lines) :
              LET line == fsy.text[gitignorePath].lines[k]
                  name == IF EndsWith(line, "/") THEN SubSeq(line, 1, Len(line) - 1) ELSE line
              IN  name \in RangeOf(Segments(rel))

\* allFiles: the listing order of the files fast-glob matches and .gitignore keeps
Enumerate(cfg, fsy) ==
    LET ignorePatterns == Unique(cfg.ignore \o DefaultIgnore)
        keep == { f \in FilesOf(fsy) :
                    /\ IsUnder(f, cfg.rootDir)
                    /\ LET rel == RelativeTo(cfg.rootDir, f)
                       IN  /\ InGlobPattern(cfg.extensions, rel)
                           /\ \A k \in 1..Len(ignorePatterns) : ~GlobMatches(ignorePatterns[k], rel)
                           /\ ~gitIgnores(fsy, cfg.rootDir, rel) }
    IN  FilterSeq(fsy.listing, keep)

(***************************************************************************)
(* bundle-analyzer                                                         *)
(***************************************************************************)
\* findBundleFiles: the .js, .css and .map files below dir, outside node_modules and .git
findBundleFiles(fsy, dir) ==
    FilterSeq(fsy.listing,
              { f \in FilesOf(fsy) :
                  /\ IsUnder(f, dir) /\ f # dir
                  /\ DirSegments(RelativeTo(dir, f)) \cap {"node_modules", ".git"} = {}
                  /\ \E e \in {".js", ".css", ".map"} : EndsWith(f, e) })

\* resolveSourcePath, as a sequence of zero (null) or one path
resolveSourcePath(fsy, cfg, source, mapDir) ==
    IF IsAbsolute(source) THEN <<source>>
    ELSE IF Exists(fsy, PathResolve(mapDir, source)) THEN <<PathResolve(mapDir, source)>>
    ELSE IF Exists(fsy, PathResolve(cfg.rootDir, source)) THEN <<PathResolve(cfg.rootDir, source)>>
    ELSE IF StartsWith(source, "webpack:///")
    THEN <<PathResolve(cfg.rootDir, Slice(source, Len("webpack:///")))>>
    ELSE <<>>

RECURSIVE ResolveSources(_, _, _, _)
ResolveSources(fsy, cfg, sources, mapDir) ==
    IF sources = <<>> THEN <<>>
    ELSE resolveSourcePath(fsy, cfg, Head(sources), mapDir)
         \o ResolveSources(fsy, cfg, Tail(sources), mapDir)

\* analyzeSourceMap: the paths it adds to this.sourceFiles (none without the consumer,
\* none for a map that is not valid JSON)
analyzeSourceMap(fsy, cfg, consumer, mapPath) ==
    IF ~consumer \/ ~fsy.text[mapPath].valid THEN <<>>
    ELSE ResolveSources(fsy, cfg, fsy.text[mapPath].sources, Dirname(mapPath))

\* analyzeJSBundle / analyzeCSSBundle: follow the sourceMappingURL comment ("" when the
\* bundle has none) when the map exists
analyzeBundleRef(fsy, cfg, consumer, bundlePath) ==
    LET url == fsy.text[bundlePath].sourceMappingURL
    IN  IF url = "" THEN <<>>
        ELSE LET mapPath == PathResolve(Dirname(bundlePath), url)
             IN  IF mapPath \in FilesOf(fsy)
                 THEN analyzeSourceMap(fsy, cfg, consumer, mapPath)
                 ELSE <<>>

analyzeBundleFile(fsy, cfg, consumer, filePath) ==
    IF EndsWith(filePath, ".map") THEN analyzeSourceMap(fsy, cfg, consumer, filePath)
    ELSE analyzeBundleRef(fsy, cfg, consumer, filePath)

RECURSIVE AnalyzeAll(_, _, _, _)
AnalyzeAll(fsy, cfg, consumer, files) ==
    IF files = <<>> THEN <<>>
    ELSE analyzeBundleFile(fsy, cfg, consumer, Head(files))
         \o AnalyzeAll(fsy, cfg, consumer, Tail(files))

BundleDirMissing == "Bundle directory not found"

\* analyzeBundleDirectory: the thrown error, or {bundleFiles, sourceFiles}
analyzeBundleDirectory(fsy, cfg, consumer, bundleDir) ==
    IF ~Exists(fsy, bundleDir)
    THEN [error |-> BundleDirMissing, bundleFiles |-> <<>>, sourceFiles |-> <<>>]
    ELSE LET files == findBundleFiles(fsy, bundleDir)
         IN  [error       |-> "",
              bundleFiles |-> files,
              sourceFiles |-> Unique(AnalyzeAll(fsy, cfg, consumer, files))]

CommonDirs == <<"dist", "build", "out", ".output", ".nuxt/dist", ".vitepress/dist">>

\* detectBundleDirectory: the first common build directory that exists, else rootDir/dist
detectBundleDirectory(fsy, cfg) ==
    LET found == { k \in 1..Len(CommonDirs) : Exists(fsy, PathResolve(cfg.rootDir, CommonDirs[k])) }
    IN  IF found # {}
        THEN PathResolve(cfg.rootDir, CommonDirs[CHOOSE k \in found : \A j \in found : k <= j])
        ELSE PathJoin(cfg.rootDir, "dist")

\* correlateWithStaticAnalysis (the size estimate, which reads file sizes only, is left out)
correlateWithStaticAnalysis(sourceFiles, staticResults) ==
    LET bundleUsedFiles     == { f \in sourceFiles : f \in RangeOf(staticResults.allFiles) }
        staticallyUsedFiles == staticResults.usedFiles
        bundleUnusedFiles   ==
            FilterSeq(staticResults.allFiles,
                      { f \in RangeOf(staticResults.allFiles) :
                          f \notin bundleUsedFiles /\ f \notin staticallyUsedFiles })
    IN  [bundleUsedFiles        |-> bundleUsedFiles,
         bundleUnusedFiles      |-> bundleUnusedFiles,
         potentiallyUnusedFiles |-> bundleUnusedFiles]

(***************************************************************************)
(* The projects the run is checked on                                      *)
(***************************************************************************)
\* the most entries a configuration lists
MaxEntry == 1

\* the most sources the bundle's source map lists
MaxSources == 1

RootDir == "/p"

StrLit(v) == [type |-> "StringLiteral", value |-> v]

NonLiteral == [type |-> "BinaryExpression", value |-> ""]

\* `./u` written as a template literal, and the identifier name
TemplateLit(v) == [type |-> "TemplateLiteral", value |-> v]

Identifier(n) == [type |-> "Identifier", value |-> n]

ImportDefault(local, source) ==
    [type |-> "ImportDeclaration", source |-> source,
     specifiers |-> <<[type |-> "ImportDefaultSpecifier", local |-> local]>>]

ImportBare(source) ==
    [type |-> "ImportDeclaration", source |-> source, specifiers |-> <<>>]

Call(callee, arg) ==
    [type |-> "CallExpression", callee |-> callee, arguments |-> <<arg>>]

Module(stmts) ==
    [program |-> [parses |-> TRUE, stmts |-> stmts],
     template |-> Null, script |-> Null, scriptSetup |-> Null]

\* /p/m.js: the application's main file
MainJs ==
    Module(<<ImportDefault("App", "@/A.vue"), ImportDefault("_", "lodash"),
             ImportDefault("y", "@x/y")>>)

\* /p/o.js: a file nothing imports
OrphanJs ==
    Module(<<ImportBare("./u"), Call("require", StrLit("./s/A.vue")),
             Call("Import", NonLiteral), Call("require", StrLit("vue")),
             Call("Import", TemplateLit("./m")), Call("require", Identifier("name"))>>)

\* /p/u.js, and /p/k.js when that is a symbolic link to it
LeafJs == Module(<<>>)

FooBarImport == [parses |-> TRUE, stmts |-> <<ImportDefault("FooBar", "./foo-bar.vue")>>]

\* a script block babelParser.parse throws on: the import of FooBar followed by a
\* syntax error
BrokenScript == [parses |-> FALSE, stmts |-> FooBarImport.stmts]

\* /p/s/A.vue: a component that renders FooBar
ComponentVue(variant) ==
    [program     |-> Null,
     template    |-> [content |-> IF variant = "kebab" THEN "<div><foo-bar/></div>"
                                  ELSE IF variant = "dynamic"
                                  THEN "<div><component :is=\"FooBar\"/></div>"
                                  ELSE "<div><FooBar/></div>"],
     script      |-> IF variant = "setup" THEN Null
                     ELSE IF variant = "broken" THEN BrokenScript
                     ELSE FooBarImport,
     scriptSetup |-> IF variant = "setup" THEN FooBarImport ELSE Null]

\* /p/s/foo-bar.vue: a component without a script
FooBarVue ==
    [program |-> Null, template |-> [content |-> "<p/>"], script |-> Null,
     scriptSetup |-> Null]

Variants == {"pascal", "kebab", "setup", "broken", "dynamic"}

EntryPool == <<"m.js", "m", "@/A.vue", "s/foo-bar.vue">>

SourcePool == <<"webpack:///o.js", "../u.js", "../k.js", "/q/z.js">>

\* the subsequences of pool with at most n elements
RECURSIVE SubSeqsOf(_, _)
SubSeqsOf(pool, n) ==
    IF pool = <<>> \/ n = 0 THEN {<<>>}
    ELSE SubSeqsOf(Tail(pool), n)
         \cup { <<Head(pool)>> \o q : q \in SubSeqsOf(Tail(pool), n - 1) }

\* the tree below /p; /p/dist is the build output with one bundle and its source map
Project(hasLink, hasFooBar, hasDist, variant, sources) ==
    LET listing ==
            (IF hasDist THEN <<"/p/dist/app.js", "/p/dist/app.js.map">> ELSE <<>>)
            \o (IF hasLink THEN <<"/p/k.js">> ELSE <<>>)
            \o <<"/p/m.js", "/p/o.js", "/p/s/A.vue">>
            \o (IF hasFooBar THEN <<"/p/s/foo-bar.vue">> ELSE <<>>)
            \o <<"/p/u.js">>
    IN  [listing |-> listing,
         files   |-> RangeOf(listing),
         dirs    |-> UNION { Ancestors(f) : f \in RangeOf(listing) },
         links   |-> IF hasLink THEN [l \in {"/p/k.js"} |-> "/p/u.js"] ELSE <<>>,
         text    |-> [f \in RangeOf(listing) |->
                        CASE f = "/p/m.js"           -> MainJs
                          [] f = "/p/o.js"           -> OrphanJs
                          [] f = "/p/s/A.vue"        -> ComponentVue(variant)
                          [] f = "/p/s/foo-bar.vue"  -> FooBarVue
                          [] f = "/p/dist/app.js"    -> [sourceMappingURL |-> "app.js.map"]
                          [] f = "/p/dist/app.js.map" -> [valid |-> TRUE, sources |-> sources]
                          [] OTHER                   -> LeafJs]]

Config(entry, bundle) ==
    [rootDir    |-> RootDir,
     alias      |-> << <<"@", "s">> >>,
     extensions |-> [all |-> FALSE, list |-> <<".vue", ".js">>],
     ignore     |-> <<"**/*.test.*", "**/*.spec.*", "**/__tests__/**">>,
     entry      |-> entry,
     bundle     |-> bundle,
     bundleDir  |-> ""]

NoTasks == <<>>

\* the counts of SpecSched; the other specifications leave them alone
SchedIdle ==
    [phase |-> "idle", nFiles |-> 0, nImporting |-> 0, activeCount |-> 0,
     pendingCount |-> 0, readCount |-> 0, suspended |-> 0]

\* the command-line program when analyzeProject is called on its own
CliIdle ==
    [pc |-> "scan", isTTY |-> FALSE, flag |-> FALSE, configDelete |-> FALSE,
     delete |-> FALSE, answer |-> "", unlinked |-> {}]

\* a run without --bundle: any component variant, any entry list
StaticRuns ==
    \E hasLink \in BOOLEAN, hasFooBar \in BOOLEAN, variant \in Variants,
       entry \in SubSeqsOf(EntryPool, MaxEntry) :
       /\ config = Config(entry, FALSE)
       /\ fsys = Project(hasLink, hasFooBar, TRUE, variant, <<>>)
       /\ sourceMapLib = TRUE

\* a run with --bundle: the build directory may be missing, the source-map library
\* may be missing, the map lists some sources
BundleRuns ==
    \E hasLink \in BOOLEAN, hasDist \in BOOLEAN, lib \in BOOLEAN,
       sources \in SubSeqsOf(SourcePool, MaxSources) :
       /\ ~hasDist => (lib /\ sources = <<>>)
       /\ ~hasLink => "../k.js" \notin RangeOf(sources)
       /\ config = Config(<<"m.js">>, TRUE)
       /\ fsys = Project(hasLink, TRUE, hasDist, "pascal", sources)
       /\ sourceMapLib = lib

Init ==
    /\ StaticRuns \/ BundleRuns
    /\ pc = "start"
    /\ bundleAnalysis = Null
    /\ allFiles = <<>>
    /\ usedFiles = {}
    /\ dependencyGraph = <<>>
    /\ pendingReads = {}
    /\ readQueue = <<>>
    /\ fileContents = {}
    /\ task = NoTasks
    /\ existsCache = <<>>
    /\ normalizeCalls = {}
    /\ probeLog = {}
    /\ edgeLog = {}
    /\ staticUnused = <<>>
    /\ result = Null
    /\ sched = SchedIdle
    /\ cli = CliIdle
    /\ previous = Null

(***************************************************************************)
(* analyzeProject                                                          *)
(***************************************************************************)
\* pLimit(20)
ConcurrencyLimit == 20

\* a catch block that lets the error of analyzeBundleDirectory end the run
rethrowBundleError(error) == [pc |-> "failed", bundleAnalysis |-> Null]

\* the catch block around analyzeBundleDirectory: warn, go on without bundle analysis
catchBundleError(error) == [pc |-> "enumerate", bundleAnalysis |-> Null]

\* config.bundle: initializeSourceMapConsumer, then analyzeBundleDirectory on the
\* configured or detected build directory
InitBundle ==
    /\ pc = "start"
    /\ LET bundleDir == IF config.bundleDir # "" THEN config.bundleDir
                        ELSE detectBundleDirectory(fsys, config)
           r   == analyzeBundleDirectory(fsys, config, sourceMapLib, bundleDir)
           out == IF ~config.bundle THEN [pc |-> "enumerate", bundleAnalysis |-> Null]
                  ELSE IF r.error # "" THEN catchBundleError(r.error)
                  ELSE [pc |-> "enumerate",
                        bundleAnalysis |-> [bundleFiles |-> r.bundleFiles,
                                            sourceFiles |-> r.sourceFiles]]
       IN  /\ pc' = out.pc
           /\ bundleAnalysis' = out.bundleAnalysis
    /\ UNCHANGED <<config, fsys, sourceMapLib, allFiles, usedFiles, dependencyGraph,
                   pendingReads, readQueue, fileContents, task, existsCache,
                   normalizeCalls, probeLog, edgeLog, staticUnused, result, sched, cli, previous>>

\* the seeding of usedFiles with the entries resolved against the working
\* directory (here the filesystem root) where the code resolves against rootDir
SeedUsedFilesCwd(cfg, fsy) ==
    { normalizeFilePath(fsy, PathResolve("/", cfg.entry[k])) : k \in 1..Len(cfg.entry) }

\* new Set(config.entry.map(resolve against rootDir).map(normalizeFilePath))
SeedUsedFiles(cfg, fsy) ==
    { normalizeFilePath(fsy, PathResolve(cfg.rootDir, cfg.entry[k])) : k \in 1..Len(cfg.entry) }

\* the glob, the .gitignore filter, the seeding of usedFiles, and the limit(...) call
\* for every file: p-limit starts the first ConcurrencyLimit reads and queues the rest
EnumerateFiles ==
    /\ pc = "enumerate"
    /\ LET files == Enumerate(config, fsys)
           n     == IF Len(files) < ConcurrencyLimit THEN Len(files) ELSE ConcurrencyLimit
       IN  /\ allFiles' = files
           /\ pendingReads' = RangeOf(SubSeq(files, 1, n))
           /\ readQueue' = SubSeq(files, n + 1, Len(files))
    /\ usedFiles' = SeedUsedFiles(config, fsys)
    /\ dependencyGraph' = <<>>
    /\ fileContents' = {}
    /\ pc' = "read"
    /\ UNCHANGED <<config, fsys, sourceMapLib, bundleAnalysis, task, existsCache,
                   normalizeCalls, probeLog, edgeLog, staticUnused, result, sched, cli, previous>>

\* fs.promises.readFile of one file settles; p-limit starts the next queued read
ReadDone(file) ==
    /\ pc = "read"
    /\ file \in pendingReads
    /\ fileContents' = fileContents \cup {file}
    /\ IF readQueue = <<>>
       THEN /\ pendingReads' = pendingReads \ {file}
            /\ readQueue' = readQueue
       ELSE /\ pendingReads' = (pendingReads \ {file}) \cup {Head(readQueue)}
            /\ readQueue' = Tail(readQueue)
    /\ UNCHANGED <<config, fsys, sourceMapLib, pc, bundleAnalysis, allFiles, usedFiles,
                   dependencyGraph, task, existsCache, normalizeCalls, probeLog,
                   edgeLog, staticUnused, result, sched, cli, previous>>

\* the synchronous head of the per-file callback: the specifiers credited by the
\* markup and the specifiers of the script, each without the package imports
AllImportsOf(cfg, fsy, file) ==
    LET code           == fsy.text[file]
        aliases        == SortAliases(cfg.alias)
        isVue          == EndsWith(file, ".vue")
        parsed         == parseVueFile(code)
        contentToParse == IF isVue THEN parsed.scriptContent ELSE code.program
        usedInTemplate == IF isVue
                          THEN getUsedImportSources(
                                   getTemplateTags(parsed.templateContent),
                                   getImportedComponents(parsed.scriptContent))
                          ELSE <<>>
        imports        == extractImports(contentToParse)
        keep(q)        == FilterSeq(q, { imp \in RangeOf(q) : ~isPackageImport(imp, aliases) })
    IN  [usedInTemplate |-> usedInTemplate,
         allImports     |-> Unique(keep(usedInTemplate) \o keep(imports))]

\* cachedExists that reserves the cache slot with false before fs.access settles
cachedExistsReserve(cache, filePath) ==
    [cache |-> IF filePath \in DOMAIN cache THEN cache ELSE (filePath :> FALSE) @@ cache,
     hit   |-> filePath \in DOMAIN cache,
     val   |-> IF filePath \in DOMAIN cache THEN cache[filePath] ELSE FALSE]

\* cachedExists up to its await: a cached answer, or fs.access is started
cachedExistsIssue(cache, filePath) ==
    [cache |-> cache,
     hit   |-> filePath \in DOMAIN cache,
     val   |-> IF filePath \in DOMAIN cache THEN cache[filePath] ELSE FALSE]

\* cachedExists that caches false whatever fs.access answered
cachedExistsSettleFalse(cache, filePath, exists) == (filePath :> FALSE) @@ cache

\* cachedExists over a cache that holds the latest answer only
cachedExistsSettleLatest(cache, filePath, exists) == (filePath :> exists)

\* cachedExists after fs.access settled: existsCache.set(filePath, exists)
cachedExistsSettle(cache, filePath, exists) == (filePath :> exists) @@ cache

CandidatesFor(file, imp) ==
    Candidates(imp, file, config.rootDir, SortAliases(config.alias), config.extensions)

NoProbe == [path |-> "", hit |-> FALSE, val |-> FALSE]

\* the callback of file after its last specifier
Finished(usedInTemplate, imports) ==
    [st |-> "done", usedInTemplate |-> usedInTemplate, imports |-> imports,
     i |-> Len(imports) + 1, cands |-> <<>>, k |-> 0, probe |-> NoProbe]

\* the callback of file suspended in cachedExists on candidate k of its i-th specifier
\* (cands: the candidates of that specifier)
Awaiting(cache, usedInTemplate, imports, i, cands, k) ==
    LET c == cachedExistsIssue(cache, cands[k])
    IN  [task  |-> [st |-> "await", usedInTemplate |-> usedInTemplate, imports |-> imports,
                    i |-> i, cands |-> cands, k |-> k,
                    probe |-> [path |-> cands[k], hit |-> c.hit, val |-> c.val]],
         cache |-> c.cache]

\* await memoizedNormalize(imp, file, ...) for the i-th specifier: the memo never
\* holds the key (a file's specifiers are distinct and no file is enumerated twice),
\* so normalizeImportPath runs, up to its first cachedExists
Normalizing(cache, file, usedInTemplate, imports, i) ==
    Awaiting(cache, usedInTemplate, imports, i, CandidatesFor(file, imports[i]), 1)

\* fileContents.map(async ...): every callback runs, in order, up to its first await
RECURSIVE StartTasks(_, _, _)
StartTasks(files, cache, acc) ==
    IF files = <<>> THEN [tasks |-> acc, cache |-> cache]
    ELSE LET file    == Head(files)
             found   == AllImportsOf(config, fsys, file)
             started == IF found.allImports = <<>>
                        THEN [task  |-> Finished(found.usedInTemplate, found.allImports),
                              cache |-> cache]
                        ELSE Normalizing(cache, file, found.usedInTemplate, found.allImports, 1)
         IN  StartTasks(Tail(files), started.cache, (file :> started.task) @@ acc)

\* a graph entry made only for the files that hold a specifier to resolve
InitEntriesImporting(graph, files) ==
    LET norms == { normalizeFilePath(fsys, files[k]) :
                     k \in { j \in 1..Len(files) :
                               AllImportsOf(config, fsys, files[j]).allImports # <<>> } }
    IN  [p \in DOMAIN graph \cup norms |-> IF p \in DOMAIN graph THEN graph[p] ELSE {}]

\* if (!dependencyGraph[fileNorm]) dependencyGraph[fileNorm] = new Set()
InitEntries(graph, files) ==
    LET norms == { normalizeFilePath(fsys, files[k]) : k \in 1..Len(files) }
    IN  [p \in DOMAIN graph \cup norms |-> IF p \in DOMAIN graph THEN graph[p] ELSE {}]

\* the first Promise.all resolved: the second one starts a callback per file
StartExtract ==
    /\ pc = "read"
    /\ pendingReads = {} /\ readQueue = <<>>
    /\ LET started == StartTasks(allFiles, existsCache, NoTasks)
           waiting == { f \in DOMAIN started.tasks : started.tasks[f].st = "await" }
       IN  /\ task' = started.tasks
           /\ existsCache' = started.cache
           /\ normalizeCalls' = normalizeCalls
                  \cup { <<started.tasks[f].imports[1], f>> : f \in waiting }
           /\ probeLog' = probeLog
                  \cup { <<started.tasks[f].probe.path, started.tasks[f].imports[1]>> :
                           f \in { g \in waiting : ~started.tasks[g].probe.hit } }
    /\ dependencyGraph' = InitEntries(dependencyGraph, allFiles)
    /\ pc' = "resolve"
    /\ UNCHANGED <<config, fsys, sourceMapLib, bundleAnalysis, allFiles, usedFiles,
                   pendingReads, readQueue, fileContents, edgeLog, staticUnused, result,
                   sched, cli, previous>>

\* dependencyGraph[fileNorm] = new Set([normPath]) where the code adds to the Set
ReplaceEdges(graph, fileNorm, normPath) == [graph EXCEPT ![fileNorm] = {normPath}]

\* dependencyGraph[fileNorm].add(normPath)
AddEdge(graph, fileNorm, normPath) == [graph EXCEPT ![fileNorm] = @ \cup {normPath}]

\* the await of one cachedExists call in the callback of file returns: the callback
\* runs on to its next await (the next candidate, or the first candidate of the
\* next specifier) or to its end
ProbeReturn(file) ==
    /\ pc = "resolve"
    /\ file \in DOMAIN task
    /\ task[file].st = "await"
    /\ LET t        == task[file]
           path     == t.probe.path
           exists   == IF t.probe.hit THEN t.probe.val ELSE Exists(fsys, path)
           cache1   == IF t.probe.hit THEN existsCache
                       ELSE cachedExistsSettle(existsCache, path, exists)
           more     == ~exists /\ t.k < Len(t.cands)
           fileNorm == normalizeFilePath(fsys, file)
           normPath == normalizeFilePath(fsys, path)
           next     == IF more
                       THEN Awaiting(cache1, t.usedInTemplate, t.imports, t.i, t.cands, t.k + 1)
                       ELSE IF t.i < Len(t.imports)
                       THEN Normalizing(cache1, file, t.usedInTemplate, t.imports, t.i + 1)
                       ELSE [task |-> Finished(t.usedInTemplate, t.imports), cache |-> cache1]
       IN  /\ task' = [task EXCEPT ![file] = next.task]
           /\ existsCache' = next.cache
           /\ dependencyGraph' = IF exists THEN AddEdge(dependencyGraph, fileNorm, normPath)
                                 ELSE dependencyGraph
           /\ usedFiles' = IF exists THEN usedFiles \cup {normPath} ELSE usedFiles
           /\ edgeLog' = IF exists THEN edgeLog \cup {<<t.imports[t.i], normPath>>}
                         ELSE edgeLog
           /\ normalizeCalls' = IF ~more /\ t.i < Len(t.imports)
                                THEN normalizeCalls \cup {<<t.imports[t.i + 1], file>>}
                                ELSE normalizeCalls
           /\ probeLog' = IF next.task.st = "await" /\ ~next.task.probe.hit
                          THEN probeLog \cup {<<next.task.probe.path, t.imports[next.task.i]>>}
                          ELSE probeLog
    /\ UNCHANGED <<config, fsys, sourceMapLib, pc, bundleAnalysis, allFiles, pendingReads,
                   readQueue, fileContents, staticUnused, result, sched, cli, previous>>

\* the unused files collected from the last enumerated file to the first
OrphanDetectorBackwards(fsy, files, used) ==
    LET allFilesSet == Unique([k \in 1..Len(files) |-> normalizeFilePath(fsy, files[k])])
        kept        == FilterSeq(allFilesSet, { f \in RangeOf(allFilesSet) : f \notin used })
    IN  [k \in 1..Len(kept) |-> kept[Len(kept) + 1 - k]]

\* [...allFilesSet].filter((f) => !usedFiles.has(f))
OrphanDetector(fsy, files, used) ==
    LET allFilesSet == Unique([k \in 1..Len(files) |-> normalizeFilePath(fsy, files[k])])
    IN  FilterSeq(allFilesSet, { f \in RangeOf(allFilesSet) : f \notin used })

\* the second Promise.all resolved: the orphan detector, the bundle correlation, the
\* result object
Finish ==
    /\ pc = "resolve"
    /\ \A f \in DOMAIN task : task[f].st = "done"
    /\ LET unusedFiles == OrphanDetector(fsys, allFiles, usedFiles)
           bundleCorrelation ==
               IF bundleAnalysis # Null
               THEN correlateWithStaticAnalysis(
                        RangeOf(bundleAnalysis.sourceFiles),
                        [allFiles |-> allFiles, usedFiles |-> usedFiles,
                         unusedFiles |-> unusedFiles])
               ELSE Null
       IN  /\ staticUnused' = unusedFiles
           /\ result' = [allFiles          |-> allFiles,
                         usedFiles         |-> usedFiles,
                         unusedFiles       |-> IF bundleCorrelation # Null /\ config.bundle
                                               THEN bundleCorrelation.bundleUnusedFiles
                                               ELSE unusedFiles,
                         dependencyGraph   |-> dependencyGraph,
                         bundleAnalysis    |-> bundleAnalysis,
                         bundleCorrelation |-> bundleCorrelation]
    /\ pc' = "done"
    /\ UNCHANGED <<config, fsys, sourceMapLib, bundleAnalysis, allFiles, usedFiles,
                   dependencyGraph, pendingReads, readQueue, fileContents, task,
                   existsCache, normalizeCalls, probeLog, edgeLog, sched, cli, previous>>

Next ==
    \/ InitBundle
    \/ EnumerateFiles
    \/ \E file \in pendingReads : ReadDone(file)
    \/ StartExtract
    \/ \E file \in DOMAIN task : ProbeReturn(file)
    \/ Finish

Spec == Init /\ [][Next]_vars

TypeOK ==
    /\ pc \in {"start", "enumerate", "read", "resolve", "done", "failed"}
    /\ Cardinality(pendingReads) <= ConcurrencyLimit
    /\ (pc = "done") = (result # Null)

(***************************************************************************)
(* the two phases as counts: callbacks of one phase differ only in their   *)
(* file, so a run is the number of callbacks at each position              *)
(***************************************************************************)
\* the largest project of SpecSched
MaxFiles == 22

Min(a, b) == IF a < b THEN a ELSE b

\* a project of nFiles enumerated files, nImporting of which hold a specifier that
\* is no package import (their callback reaches cachedExists)
SchedInit ==
    /\ config = Config(<<>>, FALSE)
    /\ fsys = Project(FALSE, FALSE, FALSE, "pascal", <<>>)
    /\ sourceMapLib = TRUE
    /\ pc = "start"
    /\ bundleAnalysis = Null
    /\ allFiles = <<>>
    /\ usedFiles = {}
    /\ dependencyGraph = <<>>
    /\ pendingReads = {}
    /\ readQueue = <<>>
    /\ fileContents = {}
    /\ task = NoTasks
    /\ existsCache = <<>>
    /\ normalizeCalls = {}
    /\ probeLog = {}
    /\ edgeLog = {}
    /\ staticUnused = <<>>
    /\ result = Null
    /\ cli = CliIdle
    /\ previous = Null
    /\ \E n \in 1..MaxFiles, m \in 0..MaxFiles :
          /\ m <= n
          /\ sched = [SchedIdle EXCEPT !.phase = "enumerate", !.nFiles = n,
                                       !.nImporting = m]

SchedUnchanged ==
    UNCHANGED <<config, fsys, sourceMapLib, pc, bundleAnalysis, allFiles, usedFiles,
                dependencyGraph, pendingReads, readQueue, fileContents, task,
                existsCache, normalizeCalls, probeLog, edgeLog, staticUnused, result,
                cli, previous>>

\* allFiles.map((file) => limit(...)): p-limit runs the first ConcurrencyLimit
\* functions at once and queues the others
SchedEnumerate ==
    /\ sched.phase = "enumerate"
    /\ sched' = [sched EXCEPT !.phase = "read",
                              !.activeCount = Min(sched.nFiles, ConcurrencyLimit),
                              !.pendingCount = sched.nFiles - Min(sched.nFiles, ConcurrencyLimit)]
    /\ SchedUnchanged

\* one readFile settles: p-limit starts a queued function in its place
SchedReadDone ==
    /\ sched.phase = "read"
    /\ sched.activeCount > 0
    /\ sched' = IF sched.pendingCount > 0
                THEN [sched EXCEPT !.readCount = @ + 1, !.pendingCount = @ - 1]
                ELSE [sched EXCEPT !.readCount = @ + 1, !.activeCount = @ - 1]
    /\ SchedUnchanged

\* fileContents.map(async ...): every callback is called, with no limit(...) around
\* it; the callbacks with a specifier to resolve suspend in cachedExists
SchedStartExtract ==
    /\ sched.phase = "read"
    /\ sched.readCount = sched.nFiles
    /\ sched' = [sched EXCEPT !.phase = "resolve", !.suspended = sched.nImporting]
    /\ SchedUnchanged

\* the last cachedExists of one callback returns and the callback ends (the returns
\* before the last one leave the counts as they are)
SchedProbeReturn ==
    /\ sched.phase = "resolve"
    /\ sched.suspended > 0
    /\ sched' = [sched EXCEPT !.suspended = @ - 1]
    /\ SchedUnchanged

\* the second Promise.all resolved
SchedFinish ==
    /\ sched.phase = "resolve"
    /\ sched.suspended = 0
    /\ sched' = [sched EXCEPT !.phase = "done"]
    /\ SchedUnchanged

SchedNext ==
    \/ SchedEnumerate
    \/ SchedReadDone
    \/ SchedStartExtract
    \/ SchedProbeReturn
    \/ SchedFinish

SpecSched == SchedInit /\ [][SchedNext]_vars

\* the per-file tasks that have started and have not finished
InFlight ==
    CASE sched.phase = "read"    -> sched.activeCount
      [] sched.phase = "resolve" -> sched.suspended
      [] OTHER                   -> 0

\* the read phase alone keeps to the ceiling
ReadPhaseBounded == sched.phase = "read" => InFlight <= ConcurrencyLimit

(***************************************************************************)
(* the resolver on its own ground: one importing file, one specifier, the  *)
(* alias table and the candidate paths drawn from small pools              *)
(***************************************************************************)
\* the most candidate paths present on disk at once
MaxPresent == 2

ResolveRoot == "/proj"

\* /proj/src/a.js: the file that holds the one specifier
ImporterJs == "/proj/src/a.js"

\* config.alias in the insertion order of its keys
AliasTables ==
    { << <<"@", "src">> >>,
      << <<"@", "src">>, <<"@/components", "lib">> >>,
      << <<"@/components", "lib">>, <<"@", "src">> >> }

SpecifierPool == <<"@/components/Foo.vue", "./foo", "./d", "./data.json">>

\* the files that may be on disk, in directory order (/proj/src/d/x.js makes
\* /proj/src/d a directory without an index file)
PathPool ==
    <<"/proj/lib/Foo.vue", "/proj/src/components/Foo.vue",
      "/proj/src/components/Foo.vue.js", "/proj/src/d/x.js", "/proj/src/data.json",
      "/proj/src/foo.js", "/proj/src/foo/index.js">>

\* the tree below /proj with the files of present and a.js importing imp
ResolveProject(present, imp) ==
    LET listing == present \o <<ImporterJs>>
    IN  [listing |-> listing,
         files   |-> RangeOf(listing),
         dirs    |-> UNION { Ancestors(f) : f \in RangeOf(listing) },
         links   |-> <<>>,
         text    |-> [f \in RangeOf(listing) |->
                        IF f = ImporterJs THEN Module(<<ImportBare(imp)>>)
                        ELSE IF EndsWith(f, ".vue") THEN FooBarVue
                        ELSE LeafJs]]

ResolveConfig(aliases) ==
    [Config(<<>>, FALSE) EXCEPT !.rootDir = ResolveRoot, !.alias = aliases]

\* analyzeProject entered in a fresh process
FreshRun ==
    /\ pc = "start"
    /\ bundleAnalysis = Null
    /\ allFiles = <<>>
    /\ usedFiles = {}
    /\ dependencyGraph = <<>>
    /\ pendingReads = {}
    /\ readQueue = <<>>
    /\ fileContents = {}
    /\ task = NoTasks
    /\ existsCache = <<>>
    /\ normalizeCalls = {}
    /\ probeLog = {}
    /\ edgeLog = {}
    /\ staticUnused = <<>>
    /\ result = Null
    /\ sched = SchedIdle
    /\ previous = Null

\* extensions: "ALL", and what "for (const ext of extensions)" then iterates
ExtensionsAll == [all |-> TRUE, list |-> <<"A", "L", "L">>]

ResolveInit ==
    /\ \E aliases \in AliasTables, all \in BOOLEAN,
          present \in SubSeqsOf(PathPool, MaxPresent), k \in 1..Len(SpecifierPool) :
          /\ all => Len(aliases) = 1
          /\ config = [ResolveConfig(aliases) EXCEPT
                         !.extensions = IF all THEN ExtensionsAll ELSE @]
          /\ fsys = ResolveProject(present, SpecifierPool[k])
    /\ sourceMapLib = TRUE
    /\ cli = CliIdle
    /\ FreshRun

SpecResolve == ResolveInit /\ [][Next]_vars

(***************************************************************************)
(* two runs in one process                                                 *)
(***************************************************************************)
\* analyzeProject is called again with the same configuration on the same tree:
\* its locals are fresh, the module-level existsCache keeps what the first run put
\* into it
Rerun ==
    /\ pc = "done"
    /\ previous = Null
    /\ previous' = result
    /\ pc' = "start"
    /\ bundleAnalysis' = Null
    /\ allFiles' = <<>>
    /\ usedFiles' = {}
    /\ dependencyGraph' = <<>>
    /\ pendingReads' = {}
    /\ readQueue' = <<>>
    /\ fileContents' = {}
    /\ task' = NoTasks
    /\ normalizeCalls' = {}
    /\ probeLog' = {}
    /\ edgeLog' = {}
    /\ staticUnused' = <<>>
    /\ result' = Null
    /\ UNCHANGED <<config, fsys, sourceMapLib, existsCache, sched, cli>>

NextTwice == Next \/ Rerun

SpecTwice == Init /\ [][NextTwice]_vars

(***************************************************************************)
(* two runs in one process with the tree changed in between                *)
(***************************************************************************)
\* a resolver project with the one alias and the configured extensions
ChangedInit == ResolveInit /\ Len(config.alias) = 1 /\ ~config.extensions.all

\* between the two calls of analyzeProject a file the first run asked about is
\* created, or removed if it was there; the module-level existsCache keeps the
\* first run's answers
RerunChanged ==
    /\ pc = "done"
    /\ previous = Null
    /\ \E p \in RangeOf(PathPool) \cap DOMAIN existsCache :
          LET before == fsys.files \ {ImporterJs}
              after  == IF p \in before THEN before \ {p} ELSE before \cup {p}
          IN  fsys' = ResolveProject(FilterSeq(PathPool, after),
                                     fsys.text[ImporterJs].program.stmts[1].source)
    /\ previous' = result
    /\ pc' = "start"
    /\ bundleAnalysis' = Null
    /\ allFiles' = <<>>
    /\ usedFiles' = {}
    /\ dependencyGraph' = <<>>
    /\ pendingReads' = {}
    /\ readQueue' = <<>>
    /\ fileContents' = {}
    /\ task' = NoTasks
    /\ normalizeCalls' = {}
    /\ probeLog' = {}
    /\ edgeLog' = {}
    /\ staticUnused' = <<>>
    /\ result' = Null
    /\ UNCHANGED <<config, sourceMapLib, existsCache, sched, cli>>

NextChanged == Next \/ RerunChanged

SpecChanged == ChangedInit /\ [][NextChanged]_vars

(***************************************************************************)
(* projects whose symbolic link leads to another file of the project, into *)
(* the build output or out of the project, with a .gitignore or without    *)
(***************************************************************************)
\* what /p/k.js may be a symbolic link to
LinkTargets == {"/p/u.js", "/p/dist/app.js", "/q/z.js"}

\* the tree of Project with /p/k.js linked to target, /q/z.js on disk outside the
\* project and, with ignoresLeaf, a .gitignore that names u.js
LinkedProject(target, ignoresLeaf, sources) ==
    LET base    == Project(TRUE, TRUE, TRUE, "pascal", sources)
        listing == (IF ignoresLeaf THEN <<"/p/.gitignore">> ELSE <<>>)
                   \o base.listing \o <<"/q/z.js">>
    IN  [listing |-> listing,
         files   |-> RangeOf(listing),
         dirs    |-> UNION { Ancestors(f) : f \in RangeOf(listing) },
         links   |-> [l \in {"/p/k.js"} |-> target],
         text    |-> [f \in RangeOf(listing) |->
                        IF f = "/p/.gitignore" THEN [lines |-> <<"u.js">>]
                        ELSE IF f = "/q/z.js" THEN LeafJs
                        ELSE base.text[f]]]

\* a run without or with --bundle whose entry is m.js or the link itself
LinkedInit ==
    /\ \E target \in LinkTargets, ignoresLeaf \in BOOLEAN, bundle \in BOOLEAN,
          entry \in {<<"m.js">>, <<"k.js">>}, sources \in SubSeqsOf(SourcePool, MaxSources) :
          /\ ~bundle => sources = <<>>
          /\ config = Config(entry, bundle)
          /\ fsys = LinkedProject(target, ignoresLeaf, sources)
    /\ sourceMapLib = TRUE
    /\ cli = CliIdle
    /\ FreshRun

SpecLinked == LinkedInit /\ [][Next]_vars

(***************************************************************************)
(* the command-line program: flags, confirmation, scan, output (a run      *)
(* without --json, --graph and --bundle)                                   *)
(***************************************************************************)
\* String.prototype.trim for replies padded with spaces
RECURSIVE Trim(_)
Trim(s) ==
    IF s = "" THEN ""
    ELSE IF CharAt(s, 1) = " " THEN Trim(Slice(s, 1))
    ELSE IF CharAt(s, Len(s)) = " " THEN Trim(SubSeq(s, 1, Len(s) - 1))
    ELSE s

ToLowerChar(c) ==
    IF IsUpper(c)
    THEN LET k == CHOOSE j \in 1..Len(UpperChars) : CharAt(UpperChars, j) = c
         IN  CharAt(LowerChars, k)
    ELSE c

\* String.prototype.toLowerCase
RECURSIVE ToLowerCase(_)
ToLowerCase(s) ==
    IF s = "" THEN "" ELSE ToLowerChar(CharAt(s, 1)) \o ToLowerCase(Slice(s, 1))

\* what the user may type at the prompt
Replies == {"y", "Y", "yes", " y ", "n", "", "no", "ny"}

\* a confirmation that takes the empty reply for a yes
confirmDeletionDefaultYes(answer) == answer = "" \/ StartsWith(ToLowerCase(answer), "y")

\* config.delete after the prompt: kept only if the answer starts with y
confirmDeletion(answer) == StartsWith(ToLowerCase(answer), "y")

\* the program started on a project with --delete given or not, delete set in the
\* configuration file or not, on a terminal or not
CliInit ==
    /\ \E hasLink \in BOOLEAN, tty \in BOOLEAN, flag \in BOOLEAN, cfgDelete \in BOOLEAN :
          /\ fsys = Project(hasLink, TRUE, FALSE, "pascal", <<>>)
          /\ cli = [CliIdle EXCEPT !.pc = "main", !.isTTY = tty, !.flag = flag,
                                   !.configDelete = cfgDelete]
    /\ config = Config(<<"m.js">>, FALSE)
    /\ sourceMapLib = TRUE
    /\ FreshRun

CliUnchanged ==
    UNCHANGED <<config, sourceMapLib, pc, bundleAnalysis, allFiles, usedFiles,
                dependencyGraph, pendingReads, readQueue, fileContents, task,
                existsCache, normalizeCalls, probeLog, edgeLog, staticUnused, result,
                sched, previous>>

\* config.delete = argv.includes("--delete") || config.delete; with delete set on
\* a terminal the question is asked, else the scan starts
CliMain ==
    /\ cli.pc = "main"
    /\ cli' = [cli EXCEPT !.delete = cli.flag \/ cli.configDelete,
                          !.pc = IF (cli.flag \/ cli.configDelete) /\ cli.isTTY
                                 THEN "confirm" ELSE "scan"]
    /\ UNCHANGED fsys
    /\ CliUnchanged

\* the user's reply arrives: the answer is the trimmed reply
CliAnswer(reply) ==
    /\ cli.pc = "confirm"
    /\ cli' = [cli EXCEPT !.answer = Trim(reply),
                          !.delete = confirmDeletion(Trim(reply)),
                          !.pc = "scan"]
    /\ UNCHANGED fsys
    /\ CliUnchanged

\* await analyzeProject(config, spinner)
CliScan == cli.pc = "scan" /\ Next

\* fs.unlinkSync on a file that is there
Unlink(fsy, gone) ==
    [fsy EXCEPT !.listing = FilterSeq(@, fsy.files \ gone),
                !.files   = @ \ gone,
                !.links   = [l \in DOMAIN @ \ gone |-> @[l]]]

\* outputResults: every path of unusedFiles is printed and, with config.delete,
\* unlinked
CliOutput ==
    /\ cli.pc = "scan"
    /\ pc = "done"
    /\ LET gone == IF cli.delete THEN RangeOf(result.unusedFiles) \cap fsys.files ELSE {}
       IN  /\ fsys' = Unlink(fsys, gone)
           /\ cli' = [cli EXCEPT !.unlinked = gone, !.pc = "exit"]
    /\ CliUnchanged

NextCli ==
    \/ CliMain
    \/ \E reply \in Replies : CliAnswer(reply)
    \/ CliScan
    \/ CliOutput

SpecCli == CliInit /\ [][NextCli]_vars

(***************************************************************************)
(* properties                                                              *)
(***************************************************************************)
Done == pc = "done"

\* the canonical identities of the enumerated files
AllFilesSet == { normalizeFilePath(fsys, allFiles[k]) : k \in 1..Len(allFiles) }

\* every file that is the target of an edge
Targets(graph) == UNION { graph[p] : p \in DOMAIN graph }

\* C1: at the end of a run every enumerated file is in exactly one of usedFiles and
\* unusedFiles (symbolic links and bundle mode included)
C1_Partition ==
    Done => \A f \in RangeOf(result.allFiles) :
                (f \in result.usedFiles) # (f \in RangeOf(result.unusedFiles))

\* C2: when the bundle correlation ran, the reported unusedFiles are among the
\* statically unused files and none of them is a used file, whatever path the file
\* was enumerated under
C2_BundleOnlyRescues ==
    (Done /\ config.bundle /\ result.bundleCorrelation # Null)
    => /\ RangeOf(result.unusedFiles) \subseteq RangeOf(staticUnused)
       /\ \A f \in RangeOf(result.unusedFiles) :
              normalizeFilePath(fsys, f) \notin result.usedFiles

\* the build directory the run analyzes
BundleDirOf ==
    IF config.bundleDir # "" THEN config.bundleDir ELSE detectBundleDirectory(fsys, config)

BundleDirIsMissing == config.bundle /\ ~Exists(fsys, BundleDirOf)

ResolveEntry(e) ==
    LET cands == Candidates(e, PathJoin(config.rootDir, "entry"), config.rootDir,
                            SortAliases(config.alias), config.extensions)
        hits  == { k \in 1..Len(cands) : Exists(fsys, cands[k]) }
    IN  IF hits = {} THEN ""
        ELSE normalizeFilePath(fsys, cands[CHOOSE k \in hits : \A j \in hits : k <= j])

\* C4 as stated: the file every configured entry resolves to, after alias and
\* extension resolution, is in usedFiles and not in unusedFiles
C4_EntriesResolved ==
    Done => \A k \in 1..Len(config.entry) :
                ResolveEntry(config.entry[k]) # ""
                => /\ ResolveEntry(config.entry[k]) \in result.usedFiles
                   /\ ResolveEntry(config.entry[k]) \notin RangeOf(result.unusedFiles)

\* the path the code seeds usedFiles with for an entry
EntryPath(e) == normalizeFilePath(fsys, PathResolve(config.rootDir, e))

\* C4: the canonical form of every entry joined to rootDir (no alias table, no
\* extension or index candidates) is in usedFiles from the enumeration on, and is
\* in the result's usedFiles and not in its unusedFiles
C4_EntriesSeeded ==
    pc \in {"read", "resolve", "done"}
    => \A k \in 1..Len(config.entry) :
          /\ EntryPath(config.entry[k]) \in usedFiles
          /\ Done => /\ EntryPath(config.entry[k]) \in result.usedFiles
                     /\ EntryPath(config.entry[k]) \notin RangeOf(result.unusedFiles)

\* a finished run with an entry that is an enumerated file no file imports
C4_Witness ==
    /\ Done
    /\ \E k \in 1..Len(config.entry) :
          /\ EntryPath(config.entry[k]) \in AllFilesSet
          /\ EntryPath(config.entry[k]) \notin Targets(result.dependencyGraph)

\* the files reachable from roots along the edges of graph
RECURSIVE Reachable(_, _)
Reachable(roots, graph) ==
    LET step == roots \cup UNION { graph[p] : p \in roots \cap DOMAIN graph }
    IN  IF step = roots THEN roots ELSE Reachable(step, graph)

\* C5 as stated: usedFiles is the set of files reachable from the entries in the
\* dependency graph, and the orphan detector reports the unreachable ones
C5_UsedIsReachable ==
    Done => /\ result.usedFiles = Reachable(SeedUsedFiles(config, fsys), result.dependencyGraph)
            /\ RangeOf(staticUnused)
                   = AllFilesSet \ Reachable(SeedUsedFiles(config, fsys), result.dependencyGraph)

\* C5: usedFiles is the seeded entries together with every edge target of the
\* graph, whether or not the importing file is reachable from an entry; the orphan
\* detector reports the enumerated files outside that set
C5_UsedIsEntriesAndTargets ==
    /\ pc \in {"read", "resolve", "done"}
       => usedFiles = SeedUsedFiles(config, fsys) \cup Targets(dependencyGraph)
    /\ Done => /\ result.usedFiles = usedFiles
               /\ result.dependencyGraph = dependencyGraph
               /\ RangeOf(staticUnused) = AllFilesSet \ usedFiles

\* a finished run with a used file that no entry reaches
C5_Witness ==
    /\ Done
    /\ result.usedFiles
          \ Reachable(SeedUsedFiles(config, fsys), result.dependencyGraph) # {}

\* normalizeImportPath run on its own: the first candidate that exists
ResolveAlone(file, imp) ==
    LET cands == CandidatesFor(file, imp)
        hits  == { k \in 1..Len(cands) : Exists(fsys, cands[k]) }
    IN  IF hits = {} THEN {}
        ELSE { normalizeFilePath(fsys, cands[CHOOSE k \in hits : \A j \in hits : k <= j]) }

\* the edges of one file when its callback runs with nothing else in flight
EdgesAlone(file) ==
    UNION { ResolveAlone(file, imp) :
              imp \in RangeOf(AllImportsOf(config, fsys, file).allImports) }

\* the graph of a run that handles the files one after the other
GraphInOrder ==
    [p \in AllFilesSet |->
        UNION { EdgesAlone(allFiles[k]) :
                  k \in { j \in 1..Len(allFiles) : normalizeFilePath(fsys, allFiles[j]) = p } }]

UsedInOrder == SeedUsedFiles(config, fsys) \cup Targets(GraphInOrder)

UnusedInOrder ==
    LET unusedFiles == OrphanDetector(fsys, allFiles, UsedInOrder)
    IN  IF bundleAnalysis # Null /\ config.bundle
        THEN correlateWithStaticAnalysis(
                 RangeOf(bundleAnalysis.sourceFiles),
                 [allFiles |-> allFiles, usedFiles |-> UsedInOrder,
                  unusedFiles |-> unusedFiles]).bundleUnusedFiles
        ELSE unusedFiles

\* C7: whatever the order in which the suspended callbacks are resumed, the run
\* returns the dependencyGraph (as a map from file to set of files) and the
\* unusedFiles of a run that handles the files one after the other
C7_InterleavingIndependent ==
    Done => /\ result.dependencyGraph = GraphInOrder
            /\ result.unusedFiles = UnusedInOrder

\* a finished run in which fs.access was asked about one path for two specifiers:
\* the second callback asked while the first one's answer was still outstanding
C7_Witness ==
    /\ Done
    /\ \E a \in probeLog, b \in probeLog : a[1] = b[1] /\ a[2] # b[2]

\* the text of file is a component with a plain <script> block that parses and
\* default-imports FooBar from "./foo-bar.vue", and whose markup holds the tag
ImportsFooBar(file, tag) ==
    /\ EndsWith(file, ".vue")
    /\ fsys.text[file].script # Null
    /\ fsys.text[file].script.parses
    /\ ImportDefault("FooBar", "./foo-bar.vue") \in RangeOf(fsys.text[file].script.stmts)
    /\ fsys.text[file].template # Null
    /\ IndexFrom(fsys.text[file].template.content, tag, 1) # 0

\* the file "./foo-bar.vue" names next to file
SiblingFooBar(file) == PathResolve(Dirname(file), "./foo-bar.vue")

\* C8: for a component whose markup holds <FooBar/> and whose <script> block
\* default-imports FooBar from "./foo-bar.vue" (an existing file), the markup
\* analyzer credits "./foo-bar.vue", the component's dependencyGraph entry holds
\* the resolved foo-bar.vue, and foo-bar.vue is in usedFiles
C8_PascalTagCredited ==
    \A file \in DOMAIN task :
        (ImportsFooBar(file, "<FooBar/>") /\ Exists(fsys, SiblingFooBar(file)))
        => /\ "./foo-bar.vue" \in RangeOf(task[file].usedInTemplate)
           /\ Done => /\ normalizeFilePath(fsys, SiblingFooBar(file))
                            \in result.dependencyGraph[normalizeFilePath(fsys, file)]
                      /\ normalizeFilePath(fsys, SiblingFooBar(file)) \in result.usedFiles
                      /\ normalizeFilePath(fsys, SiblingFooBar(file))
                            \notin RangeOf(result.unusedFiles)

\* a finished run over such a component, with foo-bar.vue enumerated
C8_Witness ==
    /\ Done
    /\ \E file \in DOMAIN task :
          /\ ImportsFooBar(file, "<FooBar/>")
          /\ SiblingFooBar(file) \in RangeOf(allFiles)

\* C9: for a component whose markup holds <foo-bar/> and whose <script> block
\* default-imports FooBar, getTemplateTags extracts the tag foo-bar, its
\* kebab-to-Pascal conversion is FooBar, and getUsedImportSources credits the
\* specifier FooBar was imported from
C9_KebabTagCredited ==
    \A file \in DOMAIN task :
        ImportsFooBar(file, "<foo-bar/>")
        => /\ "foo-bar" \in RangeOf(getTemplateTags(fsys.text[file].template.content))
           /\ kebabCaseToPascalCase("foo-bar") = "FooBar"
           /\ "./foo-bar.vue" \in RangeOf(task[file].usedInTemplate)

\* a bare package specifier, by its shape
IsBareSpecifier(imp) ==
    /\ CharAt(imp, 1) # "."
    /\ CharAt(imp, 1) # "/"
    /\ \A k \in 1..Len(config.alias) :
          /\ imp # config.alias[k][1]
          /\ ~StartsWith(imp, config.alias[k][1] \o "/")

\* the specifiers the two extractors find in file, before the package filter
RawSpecifiers(file) ==
    LET code   == fsys.text[file]
        parsed == parseVueFile(code)
    IN  IF EndsWith(file, ".vue")
        THEN RangeOf(extractImports(parsed.scriptContent))
             \cup RangeOf(getUsedImportSources(getTemplateTags(parsed.templateContent),
                                               getImportedComponents(parsed.scriptContent)))
        ELSE RangeOf(extractImports(code.program))

\* C10: no bare package specifier is handed to normalizeImportPath, is probed for
\* on the filesystem, accounts for an edge or a used file, or is itself a key, an
\* edge target or a member of usedFiles
C10_BareSpecifierUntouched ==
    /\ \A c \in normalizeCalls : ~IsBareSpecifier(c[1])
    /\ \A q \in probeLog : ~IsBareSpecifier(q[2])
    /\ \A e \in edgeLog : ~IsBareSpecifier(e[1])
    /\ \A file \in DOMAIN task : \A imp \in RawSpecifiers(file) :
          IsBareSpecifier(imp)
          => /\ imp \notin RangeOf(task[file].imports)
             /\ imp \notin DOMAIN dependencyGraph
             /\ imp \notin Targets(dependencyGraph)
             /\ imp \notin usedFiles

\* a finished run over files that hold bare specifiers, with specifiers resolved
C10_Witness ==
    /\ Done
    /\ \E file \in DOMAIN task : \E imp \in RawSpecifiers(file) : IsBareSpecifier(imp)
    /\ edgeLog # {}

\* C6: at every moment at most ConcurrencyLimit per-file tasks are in flight, in
\* the file-read phase and in the extraction/resolution phase
C6_InFlightBounded == InFlight <= ConcurrencyLimit

\* the run is the one of the example: rootDir /proj, alias table {"@": "src"}, and
\* file holds the specifier "@/components/Foo.vue"
FooExample(file) ==
    /\ config.rootDir = "/proj"
    /\ config.alias = << <<"@", "src">> >>
    /\ file \in DOMAIN task
    /\ "@/components/Foo.vue" \in RangeOf(task[file].imports)

\* C11 as stated: with alias {"@": "src"} and rootDir /proj, "@/components/Foo.vue"
\* resolves to /proj/src/components/Foo.vue when that file exists and to nothing (no
\* edge) when it does not, whatever else is on disk
C11_AliasExample ==
    Done => \A file \in RangeOf(allFiles) :
                FooExample(file)
                => result.dependencyGraph[file]
                     = IF "/proj/src/components/Foo.vue" \in fsys.files
                       THEN {"/proj/src/components/Foo.vue"}
                       ELSE {}

\* the first path of q that is on disk, as a set (empty when none is)
FirstOnDisk(q) ==
    LET hits == { k \in 1..Len(q) : Exists(fsys, q[k]) }
    IN  IF hits = {} THEN {} ELSE { q[CHOOSE k \in hits : \A j \in hits : k <= j] }

\* C11: with alias {"@": "src"}, rootDir /proj and extensions [".vue", ".js"],
\* "@/components/Foo.vue" resolves to /proj/src/components/Foo.vue when that exists,
\* else to the first that exists of Foo.vue.vue, Foo.vue.js, Foo.vue/index.vue and
\* Foo.vue/index.js below /proj/src/components, and to nothing (no edge) when none does
C11_AliasExampleCandidates ==
    Done => \A file \in RangeOf(allFiles) :
                (FooExample(file) /\ config.extensions.list = <<".vue", ".js">>)
                => result.dependencyGraph[file]
                     = FirstOnDisk(<<"/proj/src/components/Foo.vue",
                                     "/proj/src/components/Foo.vue.vue",
                                     "/proj/src/components/Foo.vue.js",
                                     "/proj/src/components/Foo.vue/index.vue",
                                     "/proj/src/components/Foo.vue/index.js">>)

\* a finished run of the example with the file on disk and the edge in the graph
C11_Witness ==
    /\ Done
    /\ \E file \in RangeOf(allFiles) :
          /\ FooExample(file)
          /\ result.dependencyGraph[file] = {"/proj/src/components/Foo.vue"}

\* the configured aliases that match imp: exactly, or as a prefix followed by "/"
MatchingAliases(imp) ==
    { k \in 1..Len(config.alias) :
        \/ imp = config.alias[k][1]
        \/ StartsWith(imp, config.alias[k][1] \o "/") }

\* the path imp stands for when the longest matching alias is replaced by its target
LongestAliasPath(imp) ==
    LET k    == CHOOSE x \in MatchingAliases(imp) :
                   \A y \in MatchingAliases(imp) :
                       Len(config.alias[x][1]) >= Len(config.alias[y][1])
        rest == IF imp = config.alias[k][1] THEN ""
                ELSE Slice(imp, Len(config.alias[k][1]) + 1)
    IN  PathResolve3(config.rootDir, config.alias[k][2], rest)

\* C12: when several configured aliases match a specifier, every path probed for
\* it and every edge it accounts for lies at the path obtained with the target of
\* the longest matching alias, in whatever order the configuration lists the aliases
C12_LongestAliasWins ==
    /\ \A q \in probeLog :
          MatchingAliases(q[2]) # {} => StartsWith(q[1], LongestAliasPath(q[2]))
    /\ \A e \in edgeLog :
          MatchingAliases(e[1]) # {} => StartsWith(e[2], LongestAliasPath(e[1]))

\* a finished run whose configuration lists the shorter of two matching aliases
\* first and whose specifier was resolved below the longer alias's target
C12_Witness ==
    /\ Done
    /\ \E e \in edgeLog :
          /\ Cardinality(MatchingAliases(e[1])) >= 2
          /\ \E k \in MatchingAliases(e[1]) :
                Len(config.alias[1][1]) < Len(config.alias[k][1])
          /\ e[2] = LongestAliasPath(e[1])

\* the script region of file does not parse
FailsToParse(file) ==
    IF EndsWith(file, ".vue")
    THEN fsys.text[file].script # Null /\ ~fsys.text[file].script.parses
    ELSE ~fsys.text[file].program.parses

\* C13: once the callbacks have started, and in the result, the keys of
\* dependencyGraph are exactly the enumerated files (a file being its canonical
\* path): every enumerated file has its entry, possibly empty, whether or not it
\* parses or imports anything, and there is no other key
C13_EveryFileHasEntry ==
    /\ pc \in {"resolve", "done"} => DOMAIN dependencyGraph = AllFilesSet
    /\ Done => /\ DOMAIN result.dependencyGraph = AllFilesSet
               /\ \A k \in 1..Len(result.allFiles) :
                     normalizeFilePath(fsys, result.allFiles[k])
                        \in DOMAIN result.dependencyGraph

\* a finished run over a file that does not parse and a file without imports, each
\* with an empty entry
C13_Witness ==
    /\ Done
    /\ \E f \in RangeOf(allFiles) :
          FailsToParse(f) /\ result.dependencyGraph[normalizeFilePath(fsys, f)] = {}
    /\ \E f \in RangeOf(allFiles) :
          /\ ~FailsToParse(f)
          /\ RawSpecifiers(f) = {}
          /\ result.dependencyGraph[normalizeFilePath(fsys, f)] = {}

\* C14: the second run of a process on the unchanged tree with the same
\* configuration returns the dependencyGraph (as a map from file to set of files)
\* and the set of unusedFiles the first run returned
C14_SecondRunSame ==
    (Done /\ previous # Null)
    => /\ result.dependencyGraph = previous.dependencyGraph
       /\ RangeOf(result.unusedFiles) = RangeOf(previous.unusedFiles)

\* a finished second run whose first run found edges and unused files
C14_Witness ==
    /\ Done
    /\ previous # Null
    /\ Targets(previous.dependencyGraph) # {}
    /\ previous.unusedFiles # <<>>
    /\ probeLog = {}

\* stmt is an import() or require() call whose argument is no string literal
IsNonLiteralCall(stmt) ==
    /\ stmt.type = "CallExpression"
    /\ stmt.callee \in {"Import", "require"}
    /\ stmt.arguments[1].type # "StringLiteral"

\* the specifiers the statements name with an import declaration or a string literal
LiteralSpecifiers(stmts) ==
    { stmts[k].source : k \in { j \in 1..Len(stmts) : stmts[j].type = "ImportDeclaration" } }
    \cup { stmts[k].arguments[1].value :
             k \in { j \in 1..Len(stmts) :
                       /\ stmts[j].type = "CallExpression"
                       /\ stmts[j].arguments[1].type = "StringLiteral" } }

\* the script files with a non-literal import() or require()
NonLiteralImporters ==
    { f \in DOMAIN task :
        /\ ~EndsWith(f, ".vue")
        /\ fsys.text[f].program.parses
        /\ \E k \in 1..Len(fsys.text[f].program.stmts) :
              IsNonLiteralCall(fsys.text[f].program.stmts[k]) }

\* C15: for a file with an import() or require() whose argument is no string
\* literal, extractImports returns exactly the specifiers of the import
\* declarations and of the calls with a string literal; the call with the other
\* argument adds no specifier and no edge, and the file's other specifiers are
\* extracted and resolved
C15_NonLiteralIgnored ==
    \A f \in NonLiteralImporters :
        /\ RangeOf(extractImports(fsys.text[f].program))
             = LiteralSpecifiers(fsys.text[f].program.stmts)
        /\ RangeOf(task[f].imports)
             = { imp \in LiteralSpecifiers(fsys.text[f].program.stmts) : ~IsBareSpecifier(imp) }
        /\ Done => result.dependencyGraph[normalizeFilePath(fsys, f)]
                     = UNION { ResolveAlone(f, imp) :
                                 imp \in LiteralSpecifiers(fsys.text[f].program.stmts)
                                         \ { i \in LiteralSpecifiers(fsys.text[f].program.stmts) :
                                               IsBareSpecifier(i) } }

\* a finished run over such a file, with the edges of its literal specifiers
C15_Witness ==
    /\ Done
    /\ \E f \in NonLiteralImporters : result.dependencyGraph[normalizeFilePath(fsys, f)] # {}

\* the components whose script region is a <script setup> block that parses
SetupComponents ==
    { f \in DOMAIN task :
        /\ EndsWith(f, ".vue")
        /\ fsys.text[f].script = Null
        /\ fsys.text[f].scriptSetup # Null
        /\ fsys.text[f].scriptSetup.parses }

\* C16: the import specifiers of a <script setup> block are extracted and give
\* dependencyGraph edges and usedFiles entries, as those of a <script> block do
C16_ScriptSetupExtracted ==
    \A f \in SetupComponents :
        /\ LiteralSpecifiers(fsys.text[f].scriptSetup.stmts) \subseteq RangeOf(task[f].imports)
        /\ Done => \A imp \in LiteralSpecifiers(fsys.text[f].scriptSetup.stmts) :
                       /\ ResolveAlone(f, imp)
                            \subseteq result.dependencyGraph[normalizeFilePath(fsys, f)]
                       /\ ResolveAlone(f, imp) \subseteq result.usedFiles

\* the answer (the reply without the spaces around it) starts with y or Y
SaidYes == cli.answer # "" /\ CharAt(cli.answer, 1) \in {"y", "Y"}

\* deletion is requested on an interactive terminal
DeleteOnTerminal == cli.isTTY /\ (cli.flag \/ cli.configDelete)

\* C17: on an interactive terminal with deletion requested, analysis does not
\* start before the prompt is answered, no file is unlinked unless the answer
\* starts with y (in either case), and after any other answer the scan runs with
\* config.delete = false and outputResults removes no file
C17_DeleteNeedsYes ==
    DeleteOnTerminal
    => /\ cli.pc \in {"main", "confirm"} => (pc = "start" /\ cli.unlinked = {})
       /\ cli.unlinked # {} => SaidYes
       /\ (cli.pc \in {"scan", "exit"} /\ ~SaidYes)
          => /\ ~cli.delete
             /\ cli.unlinked = {}
             /\ cli.pc = "exit" => RangeOf(result.unusedFiles) \subseteq fsys.files

\* the program has ended after a prompt answered with something else than yes,
\* with unused files reported and still on disk
C17_Witness ==
    /\ DeleteOnTerminal
    /\ cli.pc = "exit"
    /\ ~SaidYes
    /\ result.unusedFiles # <<>>
    /\ RangeOf(result.unusedFiles) \subseteq fsys.files

\* where the Enumerator first returned the file p (a file being its canonical path)
FirstEnumerated(p) ==
    CHOOSE k \in 1..Len(result.allFiles) :
        /\ normalizeFilePath(fsys, result.allFiles[k]) = p
        /\ \A j \in 1..(k - 1) : normalizeFilePath(fsys, result.allFiles[j]) # p

\* C18: without bundle correlation unusedFiles holds exactly the enumerated files
\* (a file being its canonical path) that are not in usedFiles, each once, in the
\* order in which the Enumerator returned them
C18_UnusedInEnumerationOrder ==
    (Done /\ result.bundleCorrelation = Null)
    => /\ RangeOf(result.unusedFiles) = AllFilesSet \ result.usedFiles
       /\ \A i, j \in 1..Len(result.unusedFiles) :
             i < j => /\ result.unusedFiles[i] # result.unusedFiles[j]
                      /\ FirstEnumerated(result.unusedFiles[i])
                           < FirstEnumerated(result.unusedFiles[j])

\* a finished run without bundle correlation that reports several files
C18_Witness ==
    /\ Done
    /\ result.bundleCorrelation = Null
    /\ Len(result.unusedFiles) >= 2

\* the path the specifier imp of file stands for: the longest matching alias
\* replaced by its target, or imp taken relative to the directory of file
SubstitutedPath(file, imp) ==
    IF MatchingAliases(imp) # {} THEN LongestAliasPath(imp)
    ELSE PathResolve(Dirname(file), imp)

\* the candidate steps in their order, for a configured list of extensions: (1)
\* the path itself if it ends in a configured extension, (2) the path with each
\* extension appended, (3) index with each extension below the path, (4) the path
StepCandidates(file, imp) ==
    LET base == SubstitutedPath(file, imp)
        exts == config.extensions.list
    IN  (IF \E k \in 1..Len(exts) : EndsWith(base, exts[k]) THEN <<base>> ELSE <<>>)
        \o [k \in 1..Len(exts) |-> base \o exts[k]]
        \o [k \in 1..Len(exts) |-> base \o "/index" \o exts[k]]
        \o <<base>>

\* C19: with a configured list of extensions, every path normalizeImportPath asks
\* about is a candidate of the four steps with every candidate before it missing
\* (so the steps are taken in order and none is tried after a hit), and the
\* specifier's edge is the first candidate that exists
C19_CandidateOrder ==
    (~config.extensions.all /\ config.extensions.list # <<>>)
    => /\ \A f \in DOMAIN task :
             task[f].st = "await"
             => \E n \in 1..Len(StepCandidates(f, task[f].imports[task[f].i])) :
                   /\ task[f].probe.path = StepCandidates(f, task[f].imports[task[f].i])[n]
                   /\ \A m \in 1..(n - 1) :
                         ~Exists(fsys, StepCandidates(f, task[f].imports[task[f].i])[m])
       /\ Done => \A f \in RangeOf(allFiles) :
                     result.dependencyGraph[normalizeFilePath(fsys, f)]
                       = { normalizeFilePath(fsys, p) :
                             p \in UNION { FirstOnDisk(StepCandidates(f, imp)) :
                                             imp \in RangeOf(task[f].imports) } }

\* a finished run in which "./foo" was resolved with foo.js and foo/index.js both
\* on disk
C19_Witness ==
    /\ Done
    /\ {"/proj/src/foo.js", "/proj/src/foo/index.js"} \subseteq fsys.files
    /\ <<"./foo", "/proj/src/foo.js">> \in edgeLog
    /\ \A q \in probeLog : q[1] # "/proj/src/foo/index.js"

\* C20: the last step returns the substituted path only if it is a file: a
\* specifier that names a directory without an index file resolves to nothing, and
\* no directory is an edge target or a member of usedFiles
C20_NoDirectoryTarget ==
    /\ \A e \in edgeLog : e[2] \notin fsys.dirs
    /\ Targets(dependencyGraph) \cap fsys.dirs = {}
    /\ usedFiles \cap fsys.dirs = {}

\* C21: with extensions "ALL", a substituted path that exists is the resolution
\* and nothing else is probed for its specifier, and for a substituted path that
\* does not exist no probed path is the path with something appended for a
\* character of the sentinel
C21_AllSentinelNoAppend ==
    config.extensions.all
    => \A c \in normalizeCalls :
          LET base == SubstitutedPath(c[2], c[1])
          IN  /\ \A q \in probeLog :
                    q[2] = c[1] => \A ch \in RangeOf(ExtensionsAll.list) :
                                      q[1] # base \o ch
              /\ (Done /\ Exists(fsys, base))
                 => /\ <<c[1], normalizeFilePath(fsys, base)>> \in edgeLog
                    /\ \A q \in probeLog : q[2] = c[1] => q[1] = base

\* the values bound by :is="..." in the markup s from position i on (the name
\* itself where the value is a quoted name)
RECURSIVE IsBindings(_, _)
IsBindings(s, i) ==
    LET at == IndexFrom(s, ":is=\"", i)
    IN  IF at = 0 THEN <<>>
        ELSE LET close == IndexFrom(s, "\"", at + 5)
             IN  IF close = 0 THEN <<>>
                 ELSE LET raw == SubSeq(s, at + 5, close - 1)
                          val == IF /\ Len(raw) >= 2
                                    /\ CharAt(raw, 1) = "'"
                                    /\ CharAt(raw, Len(raw)) = "'"
                                 THEN SubSeq(raw, 2, Len(raw) - 1)
                                 ELSE raw
                      IN  <<val>> \o IsBindings(s, close + 1)

\* C22: for every component file, each value bound by a dynamic-component binding
\* of its markup is among the tags getTemplateTags returns, and a default import
\* under that name has its source credited as used by the markup
C22_DynamicBindingIsTag ==
    \A f \in DOMAIN task :
        EndsWith(f, ".vue")
        => LET parsed == parseVueFile(fsys.text[f])
               comps  == getImportedComponents(parsed.scriptContent)
           IN  \A v \in RangeOf(IsBindings(parsed.templateContent, 1)) :
                  /\ v \in RangeOf(getTemplateTags(parsed.templateContent))
                  /\ v \in DOMAIN comps => comps[v] \in RangeOf(task[f].usedInTemplate)

\* C23: a run over a file whose script does not parse never fails and is never
\* stuck before its result; the file contributes no specifier and has an empty
\* entry, and every other file's entry in the result is the one the file gets
\* when it is handled on its own
C23_ParseFailureContained ==
    \A f \in RangeOf(allFiles) :
        FailsToParse(f)
        => /\ pc # "failed"
           /\ f \in DOMAIN task => task[f].imports = <<>> /\ task[f].usedInTemplate = <<>>
           /\ pc \in {"resolve", "done"}
              => dependencyGraph[normalizeFilePath(fsys, f)] = {}
           /\ Done => /\ result # Null
                      /\ \A p \in AllFilesSet \ {normalizeFilePath(fsys, f)} :
                            result.dependencyGraph[p] = GraphInOrder[p]

\* a finished run in which the file that does not parse has an empty entry and is
\* itself the target of another file's edge
C23_Witness ==
    /\ Done
    /\ \E f \in RangeOf(allFiles) :
          /\ FailsToParse(f)
          /\ SpecifiersOf(fsys.text[f].script.stmts) # <<>>
          /\ result.dependencyGraph[normalizeFilePath(fsys, f)] = {}
          /\ \E p \in DOMAIN result.dependencyGraph :
                normalizeFilePath(fsys, f) \in result.dependencyGraph[p]

\* C24: the second run of a process never takes an answer from existsCache that
\* it did not itself obtain from the filesystem, and its dependencyGraph is the
\* one the tree as it is during the second run gives
C24_CachePerRun ==
    previous # Null
    => /\ \A f \in DOMAIN task :
             (task[f].st = "await" /\ task[f].probe.hit)
             => \E q \in probeLog : q[1] = task[f].probe.path
       /\ Done => result.dependencyGraph = GraphInOrder

\* C25: no step of a run takes a member out of usedFiles, takes an edge out of a
\* dependencyGraph entry or drops the entry, or removes an existsCache key or
\* changes the value stored under it
C25_AppendOnly ==
    [][/\ usedFiles \subseteq usedFiles'
       /\ \A p \in DOMAIN dependencyGraph :
             p \in DOMAIN dependencyGraph' /\ dependencyGraph[p] \subseteq dependencyGraph'[p]
       /\ \A key \in DOMAIN existsCache :
             key \in DOMAIN existsCache' /\ existsCache'[key] = existsCache[key]]_vars

\* two callbacks both missed the cache for one path: the first has written its
\* answer and recorded its edge, the second is about to write the same key again
C25_Witness ==
    /\ pc = "resolve"
    /\ \E f \in DOMAIN task :
          /\ task[f].st = "await"
          /\ ~task[f].probe.hit
          /\ task[f].probe.path \in DOMAIN existsCache
          /\ normalizeFilePath(fsys, task[f].probe.path) \in usedFiles
          /\ \E p \in DOMAIN dependencyGraph : Cardinality(dependencyGraph[p]) >= 1

\* C26: a run with --bundle in which the source-map library cannot be loaded does
\* not fail, no source map adds a path to the bundle's source files, and the files
\* of the returned unusedFiles (a file being its canonical path) are exactly the
\* enumerated files outside usedFiles
C26_NoSourceMapLibDegrades ==
    (config.bundle /\ ~sourceMapLib)
    => /\ pc # "failed"
       /\ bundleAnalysis # Null => bundleAnalysis.sourceFiles = <<>>
       /\ Done => /\ result # Null
                  /\ { normalizeFilePath(fsys, f) : f \in RangeOf(result.unusedFiles) }
                        = AllFilesSet \ result.usedFiles

\* the specifiers of the script region of file alone, without the package imports
ScriptSpecifiers(file) ==
    LET code    == fsys.text[file]
        content == IF EndsWith(file, ".vue") THEN parseVueFile(code).scriptContent
                   ELSE code.program
    IN  { imp \in RangeOf(extractImports(content)) :
            ~isPackageImport(imp, SortAliases(config.alias)) }

\* the graph and the unused files of a run that takes no specifier from the markup
GraphScriptOnly ==
    [p \in AllFilesSet |->
        UNION { UNION { ResolveAlone(allFiles[k], imp) : imp \in ScriptSpecifiers(allFiles[k]) } :
                  k \in { j \in 1..Len(allFiles) : normalizeFilePath(fsys, allFiles[j]) = p } }]

UnusedScriptOnly ==
    LET used        == SeedUsedFiles(config, fsys) \cup Targets(GraphScriptOnly)
        unusedFiles == OrphanDetector(fsys, allFiles, used)
    IN  IF bundleAnalysis # Null /\ config.bundle
        THEN correlateWithStaticAnalysis(
                 RangeOf(bundleAnalysis.sourceFiles),
                 [allFiles |-> allFiles, usedFiles |-> used,
                  unusedFiles |-> unusedFiles]).bundleUnusedFiles
        ELSE unusedFiles

\* C27: for every component file the specifiers credited by the markup are among
\* the specifiers of its script region, and the run returns the dependencyGraph
\* and the unusedFiles of a run that takes no specifier from the markup
C27_MarkupAddsNothing ==
    /\ \A f \in DOMAIN task :
          EndsWith(f, ".vue")
          => /\ RangeOf(task[f].usedInTemplate)
                  \subseteq RangeOf(extractImports(parseVueFile(fsys.text[f]).scriptContent))
             /\ RangeOf(task[f].imports) = ScriptSpecifiers(f)
    /\ Done => /\ result.dependencyGraph = GraphScriptOnly
               /\ result.unusedFiles = UnusedScriptOnly

\* a finished run in which the markup of a component credited a specifier that
\* became an edge of the component
C27_Witness ==
    /\ Done
    /\ \E f \in DOMAIN task :
          /\ EndsWith(f, ".vue")
          /\ task[f].usedInTemplate # <<>>
          /\ \E e \in edgeLog :
                /\ e[1] \in RangeOf(task[f].usedInTemplate)
                /\ e[2] \in result.dependencyGraph[normalizeFilePath(fsys, f)]

\* the file p lies in the project and an ignore glob or the .gitignore excludes it
Excluded(p) ==
    /\ IsUnder(p, config.rootDir)
    /\ LET rel == RelativeTo(config.rootDir, p)
       IN  \/ \E k \in 1..Len(Unique(config.ignore \o DefaultIgnore)) :
                 GlobMatches(Unique(config.ignore \o DefaultIgnore)[k], rel)
           \/ gitIgnores(fsys, config.rootDir, rel)

\* the configured entry points, as written and in canonical form
EntryPoints ==
    { PathResolve(config.rootDir, config.entry[k]) : k \in 1..Len(config.entry) }
    \cup SeedUsedFiles(config, fsys)

\* C28: every path of the returned unusedFiles is an enumerated path or the
\* canonical path of one; it lies in rootDir, no ignore glob and no .gitignore
\* rule excludes it, and it is not a configured entry point
C28_UnusedOnlyEnumerated ==
    Done => \A f \in RangeOf(result.unusedFiles) :
               /\ f \in RangeOf(result.allFiles) \cup AllFilesSet
               /\ IsUnder(f, config.rootDir)
               /\ ~Excluded(f)
               /\ f \notin EntryPoints
====
